---- MODULE Spec2Model ----
(***************************************************************************)
(* Model of sinara/archive.py: SinaraArchive packs a directory of files    *)
(* into rows of a store (splitting files larger than ROW_SIZE into chunk   *)
(* groups "<name>.parts/part-NNNN" first) and unpacks a store back to a    *)
(* directory (writing one file per row, then joining the chunk groups).    *)
(*                                                                         *)
(* A file name is a record [k, b, n]:                                      *)
(*   k = "plain": the name b followed by n copies of the suffix ".parts"   *)
(*   k = "part" : the chunk file name "part-" + format(n, "04d")           *)
(*   k = "mark" : the sentinel "_PARTS"                                    *)
(* A path is a sequence of names; a directory tree is [files, dirs] with   *)
(* files a function from the paths of the files (relative to the root of   *)
(* the tree) to [data, mtime] and dirs the set of paths of directories.    *)
(***************************************************************************)
EXTENDS Integers, Sequences, FiniteSets, TLC

VARIABLES
    srcFiles, srcDirs,      \* the directory given to pack (tmp_entity_dir)
    dstFiles, dstDirs,      \* the directory unpack writes to
    store,                  \* the rows of the parquet dataset at store_path
    partitions,             \* the argument of df.repartition in the last pack
    coresEnv,               \* os.environ: <<>> or <<value of SINARA_SERVER_CORES>>
    listsHidden,            \* whether the engine's file listing returns "_PARTS"
    clock,                  \* logical time of file modifications
    packs, unpacks,         \* calls of pack / unpack so far
    origFiles,              \* history: the files of the source tree before any pack
    firstStore,             \* history: the store left by the first pack
    splitPc, splitArg, partNum, fpos, chunk,   \* a running _split_file
    splits,                 \* calls of _split_file so far
    taskPc,                 \* unpack: per row, the state of its SinaraArchive_save_file
    joinPc,                 \* unpack: the state of _join_parts
    nChunks, joinedLast     \* a file of nChunks chunks: split, then order of the join

vars == << srcFiles, srcDirs, dstFiles, dstDirs, store, partitions, coresEnv,
           listsHidden, clock, packs, unpacks, origFiles, firstStore,
           splitPc, splitArg, partNum, fpos, chunk, splits, taskPc, joinPc,
           nChunks, joinedLast >>

-----------------------------------------------------------------------------
(* Bounds and configuration *)

\* the two settings (get_storage_row_size, get_storage_block_size), in bytes,
\* scaled down from their defaults of 1 MiB and 10 MiB
ROW_SIZE == 2
BLOCK_SIZE == 3
\* cores when SINARA_SERVER_CORES is unset; threads per core; the 4 of ":04d"
DefaultCores == 5
ThreadsPerCore == 3
PadWidth == 4

MaxFileLen == 5
MaxCores == 1
MaxPacks == 2
MaxUnpacks == 1

-----------------------------------------------------------------------------
(* Names and paths *)

Plain(b, n) == [k |-> "plain", b |-> b, n |-> n]
PartName(i) == [k |-> "part", b |-> "", n |-> i]
MarkName == [k |-> "mark", b |-> "", n |-> 0]

\* str(x.name).endswith(".parts")
EndsWithParts(nm) == nm.k = "plain" /\ nm.n > 0

\* f"{path.name}.parts"
AddParts(nm) == [nm EXCEPT !.n = nm.n + 1]

\* parts_dir.stem: the name without its last suffix
Stem(nm) == [nm EXCEPT !.n = nm.n - 1]

Last(p) == p[Len(p)]
Parent(p) == SubSeq(p, 1, Len(p) - 1)
IsPrefix(p, q) == Len(p) <= Len(q) /\ SubSeq(q, 1, Len(p)) = p

\* the absolute location of the two directories
SrcRoot == << Plain("tmp", 0), Plain("src", 0) >>
DstRoot == << Plain("tmp", 0), Plain("dst", 0) >>

Min(a, b) == IF a < b THEN a ELSE b

-----------------------------------------------------------------------------
(* Chunk file names and their order under sorted() *)

RECURSIVE Digits(_)
\* the decimal digits of i >= 0, most significant first
Digits(i) == IF i < 10 THEN << i >> ELSE Digits(i \div 10) \o << i % 10 >>

RECURSIVE ZeroPad(_, _)
\* format(i, "04d"): zeros are added on the left up to width w, never removed
ZeroPad(d, w) == IF Len(d) >= w THEN d ELSE ZeroPad(<< 0 >> \o d, w)

\* f"part-{part_num:04d}" as a sequence of code points
ChunkText(i) ==
    << 112, 97, 114, 116, 45 >> \o
    [j \in 1..Len(ZeroPad(Digits(i), PadWidth)) |-> 48 + ZeroPad(Digits(i), PadWidth)[j]]

RECURSIVE StrLess(_, _)
\* s < t for Python strings: code point by code point, a proper prefix first
StrLess(s, t) ==
    IF t = << >> THEN FALSE
    ELSE IF s = << >> THEN TRUE
    ELSE IF s[1] # t[1] THEN s[1] < t[1]
    ELSE StrLess(Tail(s), Tail(t))

\* sorted(...glob('part-*')) puts chunk i before chunk j
SortsBefore(i, j) == StrLess(ChunkText(i), ChunkText(j))

RECURSIVE SortedParts(_)
\* the indices of the chunk files of a group in the order sorted() gives
SortedParts(S) ==
    IF S = {} THEN << >>
    ELSE LET first == CHOOSE i \in S : \A j \in S \ {i} : SortsBefore(i, j)
         IN  << first >> \o SortedParts(S \ {first})

-----------------------------------------------------------------------------
(* _split_file *)

\* parts_path = Path(f"{path.parent}/{path.name}.parts")
GroupDir(p) == Parent(p) \o << AddParts(Last(p)) >>

\* open(chunk_filename, 'wb'): the chunk file exists and is empty
OpenChunk(fs, g, k, now) ==
    [fs EXCEPT !.files =
        [q \in DOMAIN fs.files \cup {g \o << PartName(k) >>} |->
            IF q = g \o << PartName(k) >> THEN [data |-> << >>, mtime |-> now]
            ELSE fs.files[q]]]

\* fout.write(chunk), closed by the with block
WriteChunk(fs, g, k, bytes, now) ==
    [fs EXCEPT !.files =
        [q \in DOMAIN fs.files \cup {g \o << PartName(k) >>} |->
            IF q = g \o << PartName(k) >> THEN [data |-> bytes, mtime |-> now]
            ELSE fs.files[q]]]

\* Path(f"{parts_path}/_PARTS").touch(): created empty, or only its time updated
TouchMark(fs, g, now) ==
    [fs EXCEPT !.files =
        [q \in DOMAIN fs.files \cup {g \o << MarkName >>} |->
            IF q = g \o << MarkName >>
            THEN IF q \in DOMAIN fs.files
                 THEN [fs.files[q] EXCEPT !.mtime = now]
                 ELSE [data |-> << >>, mtime |-> now]
            ELSE fs.files[q]]]

\* parts_path.mkdir(parents=False, exist_ok=True)
MkGroupDir(fs, g) == [fs EXCEPT !.dirs = fs.dirs \cup {g}]

\* fin.read(chunk_size) at offset pos
ReadChunk(data, pos, cs) == SubSeq(data, pos + 1, Min(pos + cs, Len(data)))

RECURSIVE SplitLoop(_, _, _, _, _, _)
\* the while loop of _split_file from chunk number k at offset pos, and the touch
SplitLoop(fs, p, cs, k, pos, now) ==
    IF ReadChunk(fs.files[p].data, pos, cs) = << >>
    THEN TouchMark(fs, GroupDir(p), now)
    ELSE SplitLoop(WriteChunk(OpenChunk(fs, GroupDir(p), k, now), GroupDir(p), k,
                              ReadChunk(fs.files[p].data, pos, cs), now),
                   p, cs, k + 1, pos + cs, now)

\* a faulty _split_file: part_num starts after the chunk files the group already holds
SplitFileAppending(fs, p, cs, now) ==
    SplitLoop(MkGroupDir(fs, GroupDir(p)), p, cs,
              Cardinality({q \in DOMAIN fs.files :
                              Parent(q) = GroupDir(p) /\ Last(q).k = "part"}),
              0, now)

\* _split_file(path, chunk_size), run to its end
SplitFile(fs, p, cs, now) ==
    SplitLoop(MkGroupDir(fs, GroupDir(p)), p, cs, 0, 0, now)

-----------------------------------------------------------------------------
(* pack_files_from_tmp_to_spark_df *)

\* the filter of pathlist: neither the entry's name nor its parent's ends in ".parts"
Walked(root, p) ==
    /\ ~EndsWithParts(Last(p))
    /\ ~EndsWithParts(Last(Parent(root \o p)))

\* the entries of pathlist that are files
WalkFiles(root, files) == {p \in DOMAIN files : Walked(root, p)}

RECURSIVE SumSizes(_, _)
\* total_size: the sum of st_size over the walked files
SumSizes(files, S) ==
    IF S = {} THEN 0
    ELSE LET p == CHOOSE q \in S : TRUE
         IN  Len(files[p].data) + SumSizes(files, S \ {p})

\* total_size of a pack of the directory
TotalSizeOf(files) == SumSizes(files, WalkFiles(SrcRoot, files))

RECURSIVE SplitAll(_, _, _)
\* the loop over pathlist: every walked file larger than ROW_SIZE is split
SplitAll(fs, S, now) ==
    IF S = {} THEN fs
    ELSE LET p == CHOOSE q \in S : TRUE
         IN  SplitAll(IF ROW_SIZE < Len(fs.files[p].data)
                      THEN SplitFile(fs, p, ROW_SIZE, now)
                      ELSE fs,
                      S \ {p}, now)

\* cores = int(os.environ['SINARA_SERVER_CORES']) if set else 5
Cores(env) == IF env = << >> THEN DefaultCores ELSE env[1]

\* threads = cores * 3
Threads(env) == Cores(env) * ThreadsPerCore

\* int(total_size / BLOCK_SIZE) for total_size >= 0 and BLOCK_SIZE > 0
ByBlockSize(total, bs) == total \div bs

\* partitions = by block size if that is more than threads, else threads
Partitions(total, bs, env) ==
    IF ByBlockSize(total, bs) > Threads(env) THEN ByBlockSize(total, bs)
    ELSE Threads(env)

\* the engine's listing skips names that start with "_" unless hidden == TRUE
Listed(p, hidden) == hidden \/ \A i \in 1..Len(p) : p[i].k # "mark"

\* regexp_replace('path', 'file:' + tmp_entity_dir, ''): the text left of a path
\* under root is "/" and the relative path
RelPath(root, abs) ==
    IF IsPrefix(root, abs)
    THEN [lead |-> TRUE, segs |-> SubSeq(abs, Len(root) + 1, Len(abs))]
    ELSE [lead |-> FALSE, segs |-> abs]

\* a faulty load: no filter on the length column
LoadUnfiltered(root, files, hidden) ==
    {[relPath |-> RelPath(root, root \o p),
      content |-> files[p].data,
      length |-> Len(files[p].data),
      modificationTime |-> files[p].mtime] :
        p \in {q \in DOMAIN files : Listed(q, hidden)}}

\* spark.read.format("binaryFile")...load().filter(length <= ROW_SIZE)
\*      .withColumn("relPath", ...).drop("path")
Load(root, files, hidden) ==
    {[relPath |-> RelPath(root, root \o p),
      content |-> files[p].data,
      length |-> Len(files[p].data),
      modificationTime |-> files[p].mtime] :
        p \in {q \in DOMAIN files :
                  Listed(q, hidden) /\ Len(files[q].data) <= ROW_SIZE}}

-----------------------------------------------------------------------------
(* unpack: SinaraArchive_save_file and _join_parts *)

\* the directories on the way to p, as os.makedirs(dirname, exist_ok=True) makes
Ancestors(p) == {SubSeq(p, 1, i) : i \in 1..(Len(p) - 1)}

\* file_col.relPath.strip('/')
StripSlashes(rel) == rel.segs

\* SinaraArchive_save_file(row, tmp_entity_dir)
SaveFile(fs, row, now) ==
    [files |-> [q \in DOMAIN fs.files \cup {StripSlashes(row.relPath)} |->
                   IF q = StripSlashes(row.relPath)
                   THEN [data |-> row.content, mtime |-> now]
                   ELSE fs.files[q]],
     dirs |-> fs.dirs \cup Ancestors(StripSlashes(row.relPath))]

RECURSIVE SaveAll(_, _, _)
\* df_archive.foreach(SinaraArchive_save_file): every row is written
SaveAll(fs, rows, now) ==
    IF rows = {} THEN fs
    ELSE LET r == CHOOSE x \in rows : TRUE
         IN  SaveAll(SaveFile(fs, r, now), rows \ {r}, now)

\* [x for x in Path(path).glob('**/*.parts') if x.is_dir()]
PartsDirs(fs) == {d \in fs.dirs : EndsWithParts(Last(d))}

\* the indices of the files part-* right under the directory g
PartIndices(fs, g) ==
    {Last(q).n : q \in {r \in DOMAIN fs.files : Parent(r) = g /\ Last(r).k = "part"}}

RECURSIVE Concat(_, _, _)
\* the bytes of the chunk files of g whose indices are listed in order
Concat(fs, g, order) ==
    IF order = << >> THEN << >>
    ELSE fs.files[g \o << PartName(Head(order)) >>].data \o Concat(fs, g, Tail(order))

\* file_name = str(parts_dir.parent.joinpath(parts_dir.stem))
JoinTarget(g) == Parent(g) \o << Stem(Last(g)) >>

\* the body of the loop of _join_parts: write the joined file, rmtree the directory
JoinOne(fs, g, now) ==
    [files |-> [q \in {r \in DOMAIN fs.files : ~IsPrefix(g, r)} \cup {JoinTarget(g)} |->
                   IF q = JoinTarget(g)
                   THEN [data |-> Concat(fs, g, SortedParts(PartIndices(fs, g))),
                         mtime |-> now]
                   ELSE fs.files[q]],
     dirs |-> {d \in fs.dirs : ~IsPrefix(g, d)}]

RECURSIVE JoinAll(_, _, _)
\* the loop of _join_parts over parts_dirlist
JoinAll(fs, groups, now) ==
    IF groups = {} THEN fs
    ELSE LET g == CHOOSE x \in groups : TRUE
         IN  JoinAll(JoinOne(fs, g, now), groups \ {g}, now)

\* _join_parts(path)
JoinParts(fs, now) == JoinAll(fs, PartsDirs(fs), now)

-----------------------------------------------------------------------------
(* The source trees and environments the model starts from *)

\* len bytes, different at every offset and for every file
Content(fid, len) == [i \in 1..len |-> 10 * fid + i]

PathA == << Plain("a", 0) >>                    \* a
PathB == << Plain("d", 0), Plain("b", 0) >>     \* d/b
PathC == << Plain("c", 1) >>                    \* c.parts, a file
DirG == << Plain("g", 1) >>                     \* g.parts, a directory
PathG(k) == DirG \o << PartName(k) >>           \* g.parts/part-000k

\* a source tree: a and d/b of la and lb bytes, c.parts of lc bytes (-1: no such
\* file), and ng one-byte files part-0000.. in the directory g.parts
TreeFiles(la, lb, lc, ng) ==
    [q \in (IF la >= 0 THEN {PathA} ELSE {}) \cup (IF lb >= 0 THEN {PathB} ELSE {})
           \cup (IF lc >= 0 THEN {PathC} ELSE {}) \cup {PathG(k) : k \in 0..(ng - 1)} |->
        [data |-> IF q = PathA THEN Content(1, la)
                  ELSE IF q = PathB THEN Content(2, lb)
                  ELSE IF q = PathC THEN Content(4, lc)
                  ELSE Content(5 + Last(q).n, 1),
         mtime |-> 0]]

\* the directories of a tree: the ancestors of its files
DirsOf(files) == UNION {Ancestors(q) : q \in DOMAIN files}

\* os.environ: SINARA_SERVER_CORES unset, or set to the text of an integer
EnvChoices == {<< >>} \cup {<< c >> : c \in (0 - 1)..MaxCores}

\* the variables of the step-by-step runs, at rest
RestInit ==
    /\ splitPc = "idle" /\ splitArg = 0 /\ partNum = 0 /\ fpos = 0 /\ chunk = << >>
    /\ splits = 0
    /\ taskPc = << >> /\ joinPc = "idle"
    /\ nChunks = 0 /\ joinedLast = << >>

restVars == << splitPc, splitArg, partNum, fpos, chunk, splits, taskPc, joinPc,
               nChunks, joinedLast >>

Init ==
    /\ \E la \in (0 - 1)..MaxFileLen, lb \in (0 - 1)..MaxFileLen,
          lc \in {0 - 1, 1, ROW_SIZE + 1}, ng \in 0..2 :
            /\ srcFiles = TreeFiles(la, lb, lc, ng)
            /\ origFiles = TreeFiles(la, lb, lc, ng)
    /\ srcDirs = DirsOf(srcFiles)
    /\ dstFiles = << >> /\ dstDirs = {}
    /\ store = {} /\ firstStore = {}
    /\ partitions = 0
    /\ coresEnv \in EnvChoices
    /\ listsHidden \in BOOLEAN
    /\ clock = 0 /\ packs = 0 /\ unpacks = 0
    /\ RestInit

-----------------------------------------------------------------------------
(* pack and unpack, each call one step *)

\* the source directory after the loop over pathlist
Chunked(files, dirs, now) ==
    SplitAll([files |-> files, dirs |-> dirs], WalkFiles(SrcRoot, files), now)

\* pack(tmp_entity_dir, store_path): split, plan the partitions, load, overwrite
Pack ==
    /\ packs < MaxPacks
    /\ LET fs == Chunked(srcFiles, srcDirs, clock + 1)
           rows == Load(SrcRoot, fs.files, listsHidden)
       IN  /\ srcFiles' = fs.files
           /\ srcDirs' = fs.dirs
           /\ partitions' = Partitions(TotalSizeOf(srcFiles), BLOCK_SIZE, coresEnv)
           /\ store' = rows
           /\ firstStore' = IF packs = 0 THEN rows ELSE firstStore
    /\ packs' = packs + 1
    /\ clock' = clock + 1
    /\ UNCHANGED << dstFiles, dstDirs, coresEnv, listsHidden, unpacks,
                    origFiles, restVars >>

\* unpack(store_path): write every row under the destination, then _join_parts
Unpack ==
    /\ packs > 0
    /\ unpacks < MaxUnpacks
    /\ LET written == SaveAll([files |-> dstFiles, dirs |-> dstDirs], store, clock + 1)
           joined == JoinParts(written, clock + 1)
       IN  /\ dstFiles' = joined.files
           /\ dstDirs' = joined.dirs
    /\ unpacks' = unpacks + 1
    /\ clock' = clock + 1
    /\ UNCHANGED << srcFiles, srcDirs, store, partitions, coresEnv, listsHidden,
                    packs, origFiles, firstStore, restVars >>

Next == Pack \/ Unpack

Spec == Init /\ [][Next]_vars

-----------------------------------------------------------------------------
(* _split_file step by step: the directory holds the file a, larger than          *)
(* ROW_SIZE; the chunk size handed to _split_file is fixed for the run. A call    *)
(* may end at any step (an I/O error such as a full disk, or the process dying).  *)

MaxSplits == 2

\* the variables of pack and unpack that a run of _split_file leaves alone
splitFixed == << dstFiles, dstDirs, store, partitions, coresEnv, listsHidden, packs,
                 unpacks, origFiles, firstStore >>
packVars == << splitFixed, clock >>

SrcFs == [files |-> srcFiles, dirs |-> srcDirs]

\* the state before the first call, with chunk size cs
SplitStart(cs) ==
    /\ \E la \in (ROW_SIZE + 1)..MaxFileLen :
          /\ srcFiles = TreeFiles(la, 0 - 1, 0 - 1, 0)
          /\ origFiles = TreeFiles(la, 0 - 1, 0 - 1, 0)
    /\ srcDirs = {}
    /\ splitArg = cs
    /\ dstFiles = << >> /\ dstDirs = {}
    /\ store = {} /\ firstStore = {}
    /\ partitions = 0 /\ coresEnv = << >> /\ listsHidden = FALSE
    /\ clock = 0 /\ packs = 0 /\ unpacks = 0
    /\ splitPc = "idle" /\ partNum = 0 /\ fpos = 0 /\ chunk = << >> /\ splits = 0
    /\ taskPc = << >> /\ joinPc = "idle"
    /\ nChunks = 0 /\ joinedLast = << >>

\* pack calls self._split_file(path, self.ROW_SIZE)
InitSplit == SplitStart(ROW_SIZE)

\* _split_file(path, chunk_size) with a chunk size up to one above ROW_SIZE
InitChunkSize == \E cs \in 1..(ROW_SIZE + 1) : SplitStart(cs)

\* lines 123-126: mkdir, part_num = 0, open(path, 'rb')
SplitBegin ==
    /\ splitPc = "idle"
    /\ splits < MaxSplits
    /\ srcDirs' = MkGroupDir(SrcFs, GroupDir(PathA)).dirs
    /\ partNum' = 0
    /\ fpos' = 0
    /\ splitPc' = "read"
    /\ clock' = clock + 1
    /\ UNCHANGED << srcFiles, splitArg, chunk, splits, taskPc, joinPc, nChunks,
                    joinedLast, splitFixed >>

\* lines 128-129: chunk = fin.read(chunk_size); if not chunk: break
SplitRead ==
    /\ splitPc = "read"
    /\ chunk' = ReadChunk(srcFiles[PathA].data, fpos, splitArg)
    /\ fpos' = fpos + Len(chunk')
    /\ splitPc' = IF chunk' = << >> THEN "touch" ELSE "open"
    /\ UNCHANGED << srcFiles, srcDirs, splitArg, partNum, splits, taskPc, joinPc,
                    nChunks, joinedLast, packVars >>

\* lines 130-131: open(chunk_filename, 'wb')
SplitOpen ==
    /\ splitPc = "open"
    /\ srcFiles' = OpenChunk(SrcFs, GroupDir(PathA), partNum, clock).files
    /\ splitPc' = "write"
    /\ UNCHANGED << srcDirs, splitArg, partNum, fpos, chunk, splits, taskPc, joinPc,
                    nChunks, joinedLast, packVars >>

\* lines 132-133: fout.write(chunk); part_num = part_num + 1
SplitWrite ==
    /\ splitPc = "write"
    /\ srcFiles' = WriteChunk(SrcFs, GroupDir(PathA), partNum, chunk, clock).files
    /\ partNum' = partNum + 1
    /\ splitPc' = "read"
    /\ UNCHANGED << srcDirs, splitArg, fpos, chunk, splits, taskPc, joinPc,
                    nChunks, joinedLast, packVars >>

\* line 134: Path(f"{parts_path}/_PARTS").touch()
SplitTouch ==
    /\ splitPc = "touch"
    /\ srcFiles' = TouchMark(SrcFs, GroupDir(PathA), clock).files
    /\ splitPc' = "idle"
    /\ splits' = splits + 1
    /\ UNCHANGED << srcDirs, splitArg, partNum, fpos, chunk, taskPc, joinPc,
                    nChunks, joinedLast, packVars >>

\* the call ends early with an exception; what it wrote stays on disk
SplitInterrupt ==
    /\ splitPc \in {"read", "open", "write", "touch"}
    /\ splitPc' = "idle"
    /\ splits' = splits + 1
    /\ UNCHANGED << srcFiles, srcDirs, splitArg, partNum, fpos, chunk, taskPc,
                    joinPc, nChunks, joinedLast, packVars >>

NextSplit ==
    SplitBegin \/ SplitRead \/ SplitOpen \/ SplitWrite \/ SplitTouch \/ SplitInterrupt

SpecSplit == InitSplit /\ [][NextSplit]_vars

SpecChunkSize == InitChunkSize /\ [][NextSplit]_vars

-----------------------------------------------------------------------------
(* unpack step by step: the rows are written by parallel tasks, each in two       *)
(* steps (open, write); _join_parts runs on the driver when foreach has returned. *)

\* the variables an unpack leaves alone
unpackFixed == << srcFiles, srcDirs, store, partitions, coresEnv, listsHidden, packs,
                  origFiles, firstStore, splitPc, splitArg, partNum, fpos, chunk,
                  splits, nChunks, joinedLast >>

DstFs == [files |-> dstFiles, dirs |-> dstDirs]

\* the file a row is written to: path.join(tmp_entity_dir, relPath.strip('/'))
DestOf(row) == DstRoot \o StripSlashes(row.relPath)

\* the store a pack of the tree leaves
PackedStore(files, hidden) ==
    Load(SrcRoot, Chunked(files, DirsOf(files), 1).files, hidden)

InitUnpack ==
    /\ \E la \in (0 - 1)..MaxFileLen, lb \in {0 - 1, 1}, ng \in 0..1 :
          /\ origFiles = TreeFiles(la, lb, 0 - 1, ng)
          /\ srcFiles = Chunked(origFiles, DirsOf(origFiles), 1).files
          /\ srcDirs = Chunked(origFiles, DirsOf(origFiles), 1).dirs
    /\ listsHidden \in BOOLEAN
    /\ store = PackedStore(origFiles, listsHidden)
    /\ firstStore = store
    /\ partitions = Partitions(TotalSizeOf(origFiles), BLOCK_SIZE, << >>)
    /\ coresEnv = << >>
    /\ dstFiles = << >> /\ dstDirs = {}
    /\ clock = 1 /\ packs = 1 /\ unpacks = 0
    /\ RestInit

\* df_archive.foreach(...) starts: one task per row
UnpackBegin ==
    /\ joinPc = "idle"
    /\ taskPc = << >>
    /\ unpacks = 0
    /\ store # {}
    /\ taskPc' = [r \in store |-> "todo"]
    /\ joinPc' = "foreach"
    /\ UNCHANGED << dstFiles, dstDirs, clock, unpacks, unpackFixed >>

\* lines 30-34 for one row: makedirs, open(file_name, 'wb')
TaskOpen(r) ==
    /\ joinPc = "foreach"
    /\ taskPc[r] = "todo"
    /\ dstFiles' = SaveFile(DstFs, [r EXCEPT !.content = << >>], clock + 1).files
    /\ dstDirs' = SaveFile(DstFs, r, clock + 1).dirs
    /\ taskPc' = [taskPc EXCEPT ![r] = "open"]
    /\ UNCHANGED << joinPc, clock, unpacks, unpackFixed >>

\* line 35 for one row: f_id.write(file_binary), closed by the with block
TaskWrite(r) ==
    /\ joinPc = "foreach"
    /\ taskPc[r] = "open"
    /\ dstFiles' = SaveFile(DstFs, r, clock + 1).files
    /\ taskPc' = [taskPc EXCEPT ![r] = "done"]
    /\ UNCHANGED << dstDirs, joinPc, clock, unpacks, unpackFixed >>

\* a faulty barrier: foreach returns when the first task has ended
ForeachReturnedEarly(tp) == \E r \in DOMAIN tp : tp[r] = "done"

\* foreach is an action of the engine: it returns when every row's task has ended
ForeachReturned(tp) == \A r \in DOMAIN tp : tp[r] = "done"

\* line 105: _join_parts starts, parts_dirlist is listed
JoinBegin ==
    /\ joinPc = "foreach"
    /\ ForeachReturned(taskPc)
    /\ joinPc' = "join"
    /\ clock' = clock + 1
    /\ UNCHANGED << dstFiles, dstDirs, taskPc, unpacks, unpackFixed >>

\* lines 138-144: the loop over parts_dirlist, to the end of _join_parts
JoinEnd ==
    /\ joinPc = "join"
    /\ dstFiles' = JoinParts(DstFs, clock).files
    /\ dstDirs' = JoinParts(DstFs, clock).dirs
    /\ joinPc' = "done"
    /\ unpacks' = unpacks + 1
    /\ UNCHANGED << taskPc, clock, unpackFixed >>

NextUnpack ==
    \/ UnpackBegin
    \/ \E r \in DOMAIN taskPc : TaskOpen(r)
    \/ \E r \in DOMAIN taskPc : TaskWrite(r)
    \/ JoinBegin
    \/ JoinEnd

SpecUnpack == InitUnpack /\ [][NextUnpack]_vars

-----------------------------------------------------------------------------
(* _join_parts on a directory that holds chunk groups, complete or not: what an   *)
(* earlier unpack, an interrupted one or the caller left under the destination.   *)

\* the groups a.parts and d/b.parts
GroupA == GroupDir(PathA)
GroupB == GroupDir(PathB)

\* the files of a group with n chunk files of one byte each, with or without the
\* sentinel, and with or without an older joined file beside it; n = -1: no group
\* (a split that ended early leaves the chunk files written so far and no sentinel)
GroupFiles(g, fid, n, mark, old) ==
    [q \in {g \o << PartName(k) >> : k \in 0..(n - 1)}
           \cup (IF n >= 0 /\ mark THEN {g \o << MarkName >>} ELSE {})
           \cup (IF n >= 0 /\ old THEN {JoinTarget(g)} ELSE {}) |->
        [data |-> IF q = JoinTarget(g) THEN << 10 * fid >>
                  ELSE IF Last(q).k = "part" THEN << 10 * fid + 1 + Last(q).n >>
                  ELSE << >>,
         mtime |-> 0]]

\* the union of two trees with different files
Merge(f, h) == [q \in DOMAIN f \cup DOMAIN h |-> IF q \in DOMAIN f THEN f[q] ELSE h[q]]

MaxGroupParts == 3

InitJoin ==
    /\ \E na \in {0 - 1} \cup 1..MaxGroupParts, nb \in {0 - 1} \cup 1..MaxGroupParts,
          ma \in BOOLEAN, mb \in BOOLEAN, oa \in BOOLEAN, ob \in BOOLEAN :
          /\ dstFiles = Merge(GroupFiles(GroupA, 1, na, ma, oa),
                              GroupFiles(GroupB, 2, nb, mb, ob))
          /\ dstDirs = (IF na >= 0 THEN {GroupA} ELSE {})
                       \cup (IF nb >= 0 THEN {Parent(GroupB), GroupB} ELSE {})
    /\ srcFiles = << >> /\ srcDirs = {} /\ origFiles = << >>
    /\ store = {} /\ firstStore = {}
    /\ partitions = 0 /\ coresEnv = << >> /\ listsHidden = FALSE
    /\ clock = 0 /\ packs = 0 /\ unpacks = 0
    /\ RestInit

\* _join_parts(path), lines 137-144
JoinRun ==
    /\ joinPc = "idle"
    /\ dstFiles' = JoinParts(DstFs, clock + 1).files
    /\ dstDirs' = JoinParts(DstFs, clock + 1).dirs
    /\ joinPc' = "done"
    /\ clock' = clock + 1
    /\ UNCHANGED << taskPc, unpacks, unpackFixed >>

NextJoin == JoinRun

SpecJoin == InitJoin /\ [][NextJoin]_vars

-----------------------------------------------------------------------------
(* A file of nChunks chunks: the names _split_file gives the chunk files, and the *)
(* order in which _join_parts writes the last two of them.                        *)

MaxChunks == 10001

InitOrder ==
    /\ nChunks \in 1..MaxChunks
    /\ joinedLast = << >>
    /\ srcFiles = << >> /\ srcDirs = {} /\ origFiles = << >>
    /\ dstFiles = << >> /\ dstDirs = {}
    /\ store = {} /\ firstStore = {}
    /\ partitions = 0 /\ coresEnv = << >> /\ listsHidden = FALSE
    /\ clock = 0 /\ packs = 0 /\ unpacks = 0
    /\ splitPc = "idle" /\ splitArg = ROW_SIZE /\ partNum = 0 /\ fpos = 0
    /\ chunk = << >> /\ splits = 0
    /\ taskPc = << >> /\ joinPc = "idle"

\* _split_file wrote part_num = nChunks chunk files, numbered 0 .. nChunks - 1
OrderSplit ==
    /\ splitPc = "idle"
    /\ splits = 0
    /\ partNum' = nChunks
    /\ fpos' = nChunks * splitArg
    /\ splits' = 1
    /\ UNCHANGED << srcFiles, srcDirs, dstFiles, dstDirs, store, partitions, coresEnv,
                    listsHidden, clock, packs, unpacks, origFiles, firstStore, splitPc,
                    splitArg, chunk, taskPc, joinPc, nChunks, joinedLast >>

\* the order in which the loop over sorted(glob('part-*')) writes the last two
\* chunks of a group of n chunk files
LastTwoJoined(n) ==
    IF n < 2 THEN << n - 1 >>
    ELSE IF SortsBefore(n - 2, n - 1) THEN << n - 2, n - 1 >>
    ELSE << n - 1, n - 2 >>

\* _join_parts on the group
OrderJoin ==
    /\ splits = 1
    /\ joinPc = "idle"
    /\ joinedLast' = LastTwoJoined(partNum)
    /\ joinPc' = "done"
    /\ UNCHANGED << srcFiles, srcDirs, dstFiles, dstDirs, store, partitions, coresEnv,
                    listsHidden, clock, packs, unpacks, origFiles, firstStore, splitPc,
                    splitArg, partNum, fpos, chunk, splits, taskPc, nChunks >>

NextOrder == OrderSplit \/ OrderJoin

SpecOrder == InitOrder /\ [][NextOrder]_vars

-----------------------------------------------------------------------------
(* Claims about pack and unpack *)

\* a row without its modification time: (relPath, content, length)
Triple(r) == [relPath |-> r.relPath, content |-> r.content, length |-> r.length]
Triples(rows) == {Triple(r) : r \in rows}

\* the files of the source tree that are no chunk-group internals, and their bytes
PlainFiles == {p \in DOMAIN origFiles : Walked(SrcRoot, p)}
TotalBytes == SumSizes(origFiles, PlainFiles)

\* C1: after pack and unpack every file of the source tree is in the destination
\* directory at the same relative path with exactly its original bytes.
C1_RoundTrip ==
    unpacks > 0 =>
        \A p \in DOMAIN origFiles :
            p \in DOMAIN dstFiles /\ dstFiles[p].data = origFiles[p].data

\* C4: every row of the store has length <= ROW_SIZE, its length is the length of
\* its content, no file larger than ROW_SIZE is a row, and every chunk file that
\* _split_file made holds at most ROW_SIZE bytes.
C4_RowSizeInvariant ==
    /\ \A r \in store : r.length <= ROW_SIZE /\ Len(r.content) = r.length
    /\ \A p \in DOMAIN origFiles :
          Len(origFiles[p].data) > ROW_SIZE =>
              \A r \in store : r.relPath # RelPath(SrcRoot, SrcRoot \o p)
    /\ \A q \in DOMAIN srcFiles :
          Last(q).k = "part" => Len(srcFiles[q].data) <= ROW_SIZE

\* C4 witness: a pack of a tree with a file larger than ROW_SIZE stored its chunks
C4_Witness ==
    /\ packs > 0
    /\ PathA \in DOMAIN origFiles /\ Len(origFiles[PathA].data) > 2 * ROW_SIZE
    /\ \E r \in store : r.relPath.segs = GroupDir(PathA) \o << PartName(2) >>

\* C5: the second pack of the same directory to the same store leaves the same set
\* of rows (relPath, content, length) as the first.
C5_IdempotentPack == packs = 2 => Triples(store) = Triples(firstStore)

\* C5 witness: the second pack ran over chunk groups the first one left, and
\* rewrote them (the rows differ in their modification times only)
C5_Witness ==
    /\ packs = 2
    /\ store # firstStore
    /\ \E r \in store : Len(r.relPath.segs) > 1 /\ r.relPath.segs[1] = AddParts(PathA[1])

\* C6: the partition count is byBlockSize when byBlockSize > threads and threads
\* otherwise, so 3*C when totalBytes = 0 and floor(totalBytes/B) when
\* totalBytes/B > 3*C; totalBytes is the sum over the files that are no chunk-group
\* internals.
C6_PartitionPlan ==
    packs > 0 =>
        LET c == IF coresEnv = << >> THEN 5 ELSE coresEnv[1]
            by == TotalBytes \div BLOCK_SIZE
        IN  /\ partitions = IF by > 3 * c THEN by ELSE 3 * c
            /\ TotalBytes = 0 => partitions = 3 * c
            /\ TotalBytes > 3 * c * BLOCK_SIZE => partitions = by

\* C7: the partition count passed to repartition is at least 1.
C7_PartitionFloor == packs > 0 => partitions >= 1

-----------------------------------------------------------------------------
(* Claims about _join_parts, _split_file and the order of the chunks *)

\* C2: _join_parts never joins a directory <name>.parts that holds no "_PARTS":
\* the file <name> stays absent, or stays the file it was.
C2_IncompleteGroupSafety ==
    [][joinPc' = "done" =>
        \A g \in PartsDirs(DstFs) :
            g \o << MarkName >> \notin DOMAIN dstFiles =>
                IF JoinTarget(g) \in DOMAIN dstFiles
                THEN /\ JoinTarget(g) \in DOMAIN dstFiles'
                     /\ dstFiles'[JoinTarget(g)] = dstFiles[JoinTarget(g)]
                ELSE JoinTarget(g) \notin DOMAIN dstFiles']_vars

\* C3: for a file split into N chunks, chunk k is written before chunk k+1 by the
\* join (here k = N-2, N over every count up to MaxChunks): the sorted chunk file
\* names are in increasing index order.
C3_ChunkOrdering == Len(joinedLast) = 2 => joinedLast[1] < joinedLast[2]

InIndexOrder(n) == Concat(SrcFs, GroupDir(PathA), [i \in 1..n |-> i - 1])

\* C10: in every state of the directory a chunk group that holds "_PARTS" holds
\* exactly part-0000 .. part-(N-1), each of chunk-size bytes except possibly the
\* last, and their concatenation in index order is the file.
C10_SentinelImpliesComplete ==
    GroupDir(PathA) \o << MarkName >> \in DOMAIN srcFiles =>
        LET idx == PartIndices(SrcFs, GroupDir(PathA))
            n == Cardinality(idx)
        IN  /\ idx = 0..(n - 1)
            /\ \A k \in idx :
                  LET len == Len(srcFiles[GroupDir(PathA) \o << PartName(k) >>].data)
                  IN  len = splitArg \/ (k = n - 1 /\ len >= 1 /\ len <= splitArg)
            /\ InIndexOrder(n) = srcFiles[PathA].data

\* C9: _join_parts runs only when every row's write has ended, and no two rows are
\* written to the same file.
C9_WriteAllThenRejoin ==
    /\ joinPc \in {"join", "done"} => \A r \in DOMAIN taskPc : taskPc[r] = "done"
    /\ \A r1 \in DOMAIN taskPc, r2 \in DOMAIN taskPc :
          r1 # r2 => DestOf(r1) # DestOf(r2)

\* C9 witness: _join_parts is running over a group of several chunk files that
\* parallel tasks wrote
C9_Witness ==
    /\ joinPc = "join"
    /\ Cardinality(DOMAIN taskPc) >= 3
    /\ Cardinality(PartIndices(DstFs, GroupDir(PathA))) >= 2

====
